---- MODULE Spec2Model ----
(***************************************************************************)
(* Model of the receipt ingestion service (src/app.py): the HTTP handler   *)
(* ingestion_agent and its gate helpers, with the storage, identity,       *)
(* moderation, OCR and queue collaborators as nondeterministic answers.    *)
(*                                                                         *)
(* Representation of Python values.  Every value is a tagged record, so    *)
(* that truthiness ("if not x") and dict.get can be modelled as the code   *)
(* computes them:                                                          *)
(*   None            [t |-> "none"]                                        *)
(*   str             [t |-> "str", s |-> <<characters>>]                   *)
(*   int             [t |-> "int", n |-> k]                                *)
(*   list (JSON)     [t |-> "list", n |-> length]                          *)
(*   dict (JSON)     [t |-> "dict", d |-> function from keys to values]    *)
(*   base64 text     [t |-> "b64", pad, utf8, json, value]: a non-empty    *)
(*                   string read as base64; pad says whether b64decode     *)
(*                   accepts it, utf8 whether the decoded bytes are UTF-8, *)
(*                   json whether that text is JSON, value the JSON value. *)
(*   bytes (a file)  [t |-> "bytes", len |-> byte count, sig |-> signature] *)
(*   long text       [t |-> "text", len |-> number of characters]           *)
(*   MIME type       [type |-> "image", subtype |-> "jpeg"] for the string *)
(*                   "image/jpeg".                                         *)
(***************************************************************************)
EXTENDS Integers, Sequences, FiniteSets, TLC

(***************************************************************************)
(* Bounds of the model.                                                    *)
(***************************************************************************)
NumWorkers == 2
NumTokens == 2
MaxPad == 1
MaxText == 11
SmallLen == 16
MaxLimitMB == 6

Workers == 1..NumWorkers
Tokens == 1..NumTokens

(***************************************************************************)
(* Program constants.                                                      *)
(***************************************************************************)
DEFAULT_MAX_FILE_SIZE_MB == 5
BytesPerMB == 1024 * 1024
MIN_TEXT_LENGTH == 10

Mime(ty, sub) == [type |-> ty, subtype |-> sub]

\* the allow-list with the type of unrecognised bytes added
AllowedWithOctetStream ==
    { Mime("image", "jpeg"), Mime("image", "png"), Mime("image", "jpg"),
      Mime("image", "webp"), Mime("application", "pdf"),
      Mime("application", "octet-stream") }

ALLOWED_CONTENT_TYPES ==
    { Mime("image", "jpeg"), Mime("image", "png"), Mime("image", "jpg"),
      Mime("image", "webp"), Mime("application", "pdf") }

(***************************************************************************)
(* Python values.                                                          *)
(***************************************************************************)
None == [t |-> "none"]
Str(s) == [t |-> "str", s |-> s]
Num(n) == [t |-> "int", n |-> n]
List(n) == [t |-> "list", n |-> n]
Dict(d) == [t |-> "dict", d |-> d]
B64(pad, utf8, json, value) ==
    [t |-> "b64", pad |-> pad, utf8 |-> utf8, json |-> json, value |-> value]

EmptyDict == [k \in {} |-> None]

\* Python truthiness: "if not v" is ~Truthy(v).
Truthy(v) ==
    CASE v.t = "none" -> FALSE
      [] v.t = "str"  -> v.s # <<>>
      [] v.t = "int"  -> v.n # 0
      [] v.t = "list" -> v.n # 0
      [] v.t = "dict" -> DOMAIN v.d # {}
      [] v.t = "bytes" -> v.len # 0
      [] v.t = "text" -> v.len # 0
      [] OTHER        -> TRUE

\* v.get(k) raises AttributeError unless v is a dict.
HasGet(v) == v.t = "dict"

\* dict.get(k): the value, or None when the key is absent.
Get(v, k) == IF k \in DOMAIN v.d THEN v.d[k] ELSE None

\* dict.get(k, default)
GetOr(v, k, default) == IF k \in DOMAIN v.d THEN v.d[k] ELSE default

(***************************************************************************)
(* Results of a piece of the handler: it returns a response, or goes on.   *)
(***************************************************************************)
Return(error, status) ==
    [ret |-> TRUE, error |-> error, status |-> status, message_id |-> None]
Accepted(message_id) ==
    [ret |-> TRUE, error |-> "", status |-> 200, message_id |-> message_id]
Continue(vals) == [ret |-> FALSE, vals |-> vals]

\* the outer "except Exception" of ingestion_agent
InternalServerError == Return("Internal Server Error", 500)

(***************************************************************************)
(* Decoding of the relay envelope (lines 55-58).  Each step either raises  *)
(* or yields the decoded value.                                            *)
(***************************************************************************)
Raised == [ok |-> FALSE]
Value(v) == [ok |-> TRUE, val |-> v]

\* base64.b64decode(data_base64): TypeError for a value that is no string,
\* binascii.Error for a string that is not base64; otherwise the bytes.
B64Decode(v) ==
    IF v.t = "b64" /\ v.pad THEN Value([utf8 |-> v.utf8, json |-> v.json, value |-> v.value])
    ELSE Raised

\* bytes.decode("utf-8"): UnicodeDecodeError for bytes that are not UTF-8.
Utf8Decode(b) ==
    IF b.utf8 THEN Value([json |-> b.json, value |-> b.value]) ELSE Raised

\* json.loads(text): JSONDecodeError for text that is not JSON.
JsonLoads(txt) ==
    IF txt.json THEN Value(txt.value) ELSE Raised

\* lines 55-58: decoded_data, then data_json
DecodeData(data_base64) ==
    LET b == B64Decode(data_base64) IN
    IF ~b.ok THEN Raised
    ELSE LET u == Utf8Decode(b.val) IN
         IF ~u.ok THEN Raised ELSE JsonLoads(u.val)

(***************************************************************************)
(* ingestion_agent, lines 41-74: unwrapping of the request body into       *)
(* bucket_name and file_name.  request_json is what get_json(silent=True)  *)
(* returned: None for a missing or malformed body.  An exception raised    *)
(* here reaches the handler's outer except (lines 208-210).                *)
(***************************************************************************)
ParseRequest(request_json) ==
    IF ~Truthy(request_json) THEN Return("Invalid or missing JSON body", 400)
    ELSE IF ~HasGet(request_json) THEN InternalServerError
    ELSE LET message == GetOr(request_json, "message", Dict(EmptyDict)) IN
    IF ~HasGet(message) THEN InternalServerError
    ELSE LET data_base64 == Get(message, "data") IN
    IF ~Truthy(data_base64) THEN Return("Missing data", 400)
    ELSE LET data_json == DecodeData(data_base64) IN
    IF ~data_json.ok THEN InternalServerError
    ELSE IF ~HasGet(data_json.val) THEN InternalServerError
    ELSE IF ~Truthy(Get(data_json.val, "bucket")) \/ ~Truthy(Get(data_json.val, "name"))
         THEN Return("Missing bucket or file name 2 ", 400)
    ELSE LET bucket_name == Get(request_json, "bucket")
             file_name == Get(request_json, "name") IN
    IF ~Truthy(bucket_name) \/ ~Truthy(file_name)
         THEN Return("Missing bucket or file name", 400)
    ELSE Continue([bucket_name |-> bucket_name, file_name |-> file_name])

(***************************************************************************)
(* Strings are sequences of characters; str.split and str.strip are        *)
(* computed on them.                                                       *)
(***************************************************************************)
\* index of the first occurrence of character c in s, Len(s) + 1 if none
FirstIndex(s, c) ==
    IF \E i \in 1..Len(s) : s[i] = c
    THEN CHOOSE i \in 1..Len(s) : s[i] = c /\ \A j \in 1..(i - 1) : s[j] # c
    ELSE Len(s) + 1

\* the part of s before the last c (s.rsplit(c, 1)[0])
SplitBeforeLast(s, c) ==
    IF \E i \in 1..Len(s) : s[i] = c
    THEN SubSeq(s, 1, (CHOOSE i \in 1..Len(s) :
                         s[i] = c /\ \A j \in (i + 1)..Len(s) : s[j] # c) - 1)
    ELSE s

\* s.split(c)[0]: the part of s before the first c (all of s if there is none)
SplitFirst(s, c) == SubSeq(s, 1, FirstIndex(s, c) - 1)

Whitespace == {" ", "\n", "\t"}

RECURSIVE LStrip(_)
LStrip(s) == IF s # <<>> /\ Head(s) \in Whitespace THEN LStrip(Tail(s)) ELSE s

RECURSIVE RStrip(_)
RStrip(s) ==
    IF s # <<>> /\ s[Len(s)] \in Whitespace THEN RStrip(SubSeq(s, 1, Len(s) - 1)) ELSE s

\* str.strip()
Strip(s) == RStrip(LStrip(s))

(***************************************************************************)
(* Bytes of a file: its length and what its leading bytes are.             *)
(***************************************************************************)
Bytes(n, sig) == [t |-> "bytes", len |-> n, sig |-> sig]

\* imghdr.what(None, h): the image formats the handler tells apart, "gif" for
\* any other format imghdr knows, None for bytes it does not recognise.
ImghdrWhat(image_bytes) ==
    IF image_bytes.sig \in {"jpeg", "png", "webp", "gif"} THEN image_bytes.sig ELSE "None"

\* image_bytes.startswith(b'%PDF')
StartsWithPDF(image_bytes) == image_bytes.sig = "pdf"

\* base64.b64encode(b).decode("utf-8"): four characters for every three bytes
B64EncodeLen(n) == 4 * ((n + 2) \div 3)

(***************************************************************************)
(* The gates (lines 212-327), as functions of their input and of the       *)
(* answer of the collaborator they call.                                   *)
(***************************************************************************)
\* lines 105-110: metadata user_id, else the file name up to the first "-"
DeriveUserId(blob_metadata, file_name) ==
    LET metadata == IF Truthy(blob_metadata) THEN blob_metadata ELSE Dict(EmptyDict)
        user_id == Get(metadata, "user_id")
    IN IF ~Truthy(user_id) THEN Str(SplitFirst(file_name.s, "-")) ELSE user_id

\* line 114: blob.size and blob.size > MAX_FILE_SIZE_MB * 1024 * 1024
ReportedTooLarge(blob_size, limitMB) ==
    Truthy(blob_size) /\ blob_size.n > limitMB * BytesPerMB

\* _verify_user_exists without the look at user_record.disabled
VerifyUserExistsAnyRecord(ans) == ans.kind = "user"

\* _verify_user_exists letting through an owner whose lookup raised
VerifyUserExistsFailOpen(ans) ==
    IF ans.kind = "user" THEN ~ans.disabled ELSE ans.kind = "error"

\* _verify_user_exists: the answer of auth.get_user is a user record with its
\* disabled flag, UserNotFoundError, or another exception.
VerifyUserExists(ans) ==
    IF ans.kind = "user" THEN ~ans.disabled ELSE FALSE

\* _validate_file_size with size_mb < limit
ValidateFileSizeStrict(image_bytes, limitMB) ==
    image_bytes.len < limitMB * BytesPerMB

\* _validate_file_size counting whole megabytes (len // (1024 * 1024))
ValidateFileSizeWholeMB(image_bytes, limitMB) ==
    image_bytes.len \div BytesPerMB <= limitMB

\* _validate_file_size: size_mb = len / (1024 * 1024) is a float division by a
\* power of two, exact for every length below 2^53, so size_mb <= limit is
\* decided on the integers.
ValidateFileSize(image_bytes, limitMB) ==
    image_bytes.len <= limitMB * BytesPerMB

\* _detect_content_type
DetectContentType(image_bytes) ==
    LET fmt == ImghdrWhat(image_bytes) IN
    IF fmt = "jpeg" THEN Mime("image", "jpeg")
    ELSE IF fmt = "png" THEN Mime("image", "png")
    ELSE IF fmt = "webp" THEN Mime("image", "webp")
    ELSE IF StartsWithPDF(image_bytes) THEN Mime("application", "pdf")
    ELSE Mime("application", "octet-stream")

Likelihood ==
    {"UNKNOWN", "VERY_UNLIKELY", "UNLIKELY", "POSSIBLE", "LIKELY", "VERY_LIKELY"}

Unsafe(l) == l \in {"LIKELY", "VERY_LIKELY"}

\* _perform_safety_check: the answer of safe_search_detection is an exception,
\* a response with error.message set, or a response with the three ratings.
PerformSafetyCheck(ans) ==
    IF ans.kind = "raise" THEN TRUE
    ELSE IF ans.kind = "error" THEN FALSE
    ELSE ~(Unsafe(ans.adult) \/ Unsafe(ans.violence) \/ Unsafe(ans.racy))

\* _validate_content_structure with the threshold off by one
ValidateContentStructureOffByOne(ans) ==
    IF ans.kind = "raise" THEN TRUE
    ELSE IF ans.kind = "error" THEN TRUE
    ELSE IF ans.annotations = <<>> THEN FALSE
    ELSE Len(Strip(ans.annotations[1])) > MIN_TEXT_LENGTH

\* _validate_content_structure: the answer of text_detection is an exception,
\* a response with error.message set, or the list of text annotations (the
\* description of each).
ValidateContentStructure(ans) ==
    IF ans.kind = "raise" THEN TRUE
    ELSE IF ans.kind = "error" THEN TRUE
    ELSE IF ans.annotations = <<>> THEN FALSE
    ELSE Len(Strip(ans.annotations[1])) >= MIN_TEXT_LENGTH

\* the extension with "jpg" for image/jpeg
ExtShort(content_type) ==
    IF content_type.subtype = "jpeg" THEN "jpg" ELSE content_type.subtype

\* line 174: content_type.split("/")[-1]
Ext(content_type) == content_type.subtype

\* the image checks applied to every content type
IsImageOrDocument(content_type) == content_type.type \in {"image", "application"}

\* line 161: content_type.startswith("image/")
IsImage(content_type) == content_type.type = "image"

(***************************************************************************)
(* Inputs: the request bodies a caller can send.                           *)
(***************************************************************************)
\* the dict with the given <<key, value>> pairs
MkDict(pairs) ==
    Dict([k \in {p[1] : p \in pairs} |-> (CHOOSE p \in pairs : p[1] = k)[2]])

FileNames ==
    { <<"a", "-", "x">>, <<"-", "x">>, <<"a", "b">>, <<"a", "-", "b", "-", "x">> }

\* the inner JSON of a relay envelope
InnerValues ==
    { List(1),
      Dict(EmptyDict),
      MkDict({<<"bucket", Str(<<"b">>)>>}),
      MkDict({<<"name", Str(<<"a", "-", "x">>)>>}),
      MkDict({<<"bucket", Str(<<"b">>)>>, <<"name", Str(<<"a", "-", "x">>)>>}) }

\* the values of message.data
DataValues ==
    { Str(<<>>), Num(7),
      B64(FALSE, TRUE, TRUE, None),
      B64(TRUE, FALSE, TRUE, None),
      B64(TRUE, TRUE, FALSE, None) }
    \cup { B64(TRUE, TRUE, TRUE, v) : v \in InnerValues }

\* the "message" member of the body, if any
MessageParts ==
    { {}, {<<"message", None>>}, {<<"message", Str(<<"m">>)>>},
      {<<"message", Dict(EmptyDict)>>} }
    \cup { {<<"message", MkDict({<<"data", d>>})>>} : d \in DataValues }

\* the other members of the body
OuterParts ==
    { {},
      {<<"user_id", Str(<<"a">>)>>, <<"file_data_base64", B64(TRUE, FALSE, FALSE, None)>>},
      {<<"user_id", Str(<<"a">>)>>, <<"file_data_base64", B64(FALSE, FALSE, FALSE, None)>>},
      {<<"bucket", Str(<<"b">>)>>},
      {<<"name", Str(<<"a", "-", "x">>)>>},
      {<<"bucket", Str(<<"c">>)>>, <<"name", Str(<<"a", "-", "x">>)>>} }
    \cup { {<<"bucket", Str(<<"b">>)>>, <<"name", Str(n)>>} : n \in FileNames }

\* what request.get_json(silent=True) can return
Requests ==
    { None, List(1), Dict(EmptyDict) }
    \cup { MkDict(m \cup o) : m \in MessageParts, o \in OuterParts }

(***************************************************************************)
(* Answers of the collaborators.                                           *)
(***************************************************************************)
StorageErrors == {"NotFound", "Forbidden", "Exception"}

BlobMetadata ==
    { None, MkDict({<<"user_id", Str(<<>>)>>}), MkDict({<<"user_id", Str(<<"b">>)>>}) }

\* blob.size as the storage collaborator reports it
BlobSizes(limitMB) ==
    { None }
    \cup { Num(n) : n \in { m \in {0, limitMB * BytesPerMB, limitMB * BytesPerMB + 1} :
                              m >= 0 } }

\* the objects that landed in storage before the request: <<bucket, name>>
InnerBlob == <<Str(<<"b">>), Str(<<"a", "-", "x">>)>>
OtherBlob == <<Str(<<"c">>), Str(<<"a", "-", "x">>)>>
AllBlobs == { <<Str(<<"b">>), Str(n)>> : n \in FileNames } \cup {OtherBlob}
LandedChoices == { {}, {InnerBlob}, {OtherBlob}, AllBlobs }

\* blob.exists() and blob.reload() (lines 80-91) for a blob that is there or not
BlobAnswers(limitMB, there) ==
    { [exists |-> e, reload |-> "-", metadata |-> None, size |-> None] :
        e \in StorageErrors }
    \cup
    IF ~there
    THEN { [exists |-> "false", reload |-> "-", metadata |-> None, size |-> None] }
    ELSE { [exists |-> "true", reload |-> r, metadata |-> None, size |-> None] :
             r \in StorageErrors }
         \cup { [exists |-> "true", reload |-> "ok", metadata |-> m, size |-> sz] :
             m \in BlobMetadata, sz \in BlobSizes(limitMB) }

Signatures == {"jpeg", "png", "webp", "gif", "pdf", "none"}

\* blob.download_as_bytes() (line 121): the content, whatever size was reported
Payloads(limitMB) ==
    { Bytes(0, "none") }
    \cup { Bytes(n, sig) :
             n \in { m \in {SmallLen, limitMB * BytesPerMB, limitMB * BytesPerMB + 1} :
                      m > 0 },
             sig \in Signatures }

DownloadAnswers(limitMB) ==
    { [kind |-> "raise", content |-> None] }
    \cup { [kind |-> "bytes", content |-> b] : b \in Payloads(limitMB) }

\* auth.get_user(user_id) (line 215)
UserAnswers ==
    { [kind |-> "user", disabled |-> d] : d \in BOOLEAN }
    \cup { [kind |-> k, disabled |-> FALSE] : k \in {"UserNotFoundError", "error"} }

\* the ratings the moderation answers are drawn from
Ratings == {"VERY_UNLIKELY", "POSSIBLE", "LIKELY", "VERY_LIKELY"}

\* vision_client.safe_search_detection (line 266)
SafetyAnswers ==
    { [kind |-> k, adult |-> "UNKNOWN", violence |-> "UNKNOWN", racy |-> "UNKNOWN"] :
        k \in {"raise", "error"} }
    \cup { [kind |-> "response", adult |-> a, violence |-> v, racy |-> r] :
        a \in Ratings, v \in Ratings, r \in Ratings }

\* n copies of character c
Rep(c, n) == [i \in 1..n |-> c]

\* k characters, the second one a blank if gap (and k >= 3)
Core(k, gap) == [i \in 1..k |-> IF gap /\ k >= 3 /\ i = 2 THEN " " ELSE "x"]

\* a detected text: k characters between leading blanks and trailing newlines
Texts ==
    { Rep(" ", l) \o Core(k, gap) \o Rep("\n", r) :
        l \in 0..MaxPad, k \in 0..MaxText, r \in 0..MaxPad, gap \in BOOLEAN }

\* vision_client.text_detection (line 299)
TextAnswers ==
    { [kind |-> k, annotations |-> <<>>] : k \in {"raise", "error", "response"} }
    \cup { [kind |-> "response", annotations |-> <<txt>>] : txt \in Texts }

(***************************************************************************)
(* Environments.  "any": callers send any body and the collaborators       *)
(* answer anything.  "same": every caller relays the same object, of the   *)
(* same owner and the same bytes, and only the relocation and the publish  *)
(* can fail.  "sizes": as "same", with every reported size and every       *)
(* content length, and no failure.                                         *)
(***************************************************************************)
Environments == {"any", "same", "sizes"}

\* the relay envelope for the object a-x of bucket b
RelayRequest ==
    MkDict({ <<"message", MkDict({<<"data",
                 B64(TRUE, TRUE, TRUE,
                     MkDict({<<"bucket", Str(<<"b">>)>>,
                             <<"name", Str(<<"a", "-", "x">>)>>}))>>})>>,
             <<"bucket", Str(<<"b">>)>>, <<"name", Str(<<"a", "-", "x">>)>> })

RequestsOf(e) == IF e = "any" THEN Requests ELSE {RelayRequest}

BlobAnswersOf(e, limitMB, there) ==
    IF e = "any" THEN BlobAnswers(limitMB, there)
    ELSE { a \in BlobAnswers(limitMB, there) :
             /\ a.exists \in {"true", "false"}
             /\ a.reload \in {"ok", "-"}
             /\ a.metadata = None
             /\ e = "same" => a.size = None }

DownloadAnswersOf(e, limitMB) ==
    IF e = "any" THEN DownloadAnswers(limitMB)
    ELSE { a \in DownloadAnswers(limitMB) :
             /\ a.kind = "bytes"
             /\ a.content.sig = "jpeg"
             /\ e = "same" => a.content.len = SmallLen }

UserAnswersOf(e) ==
    IF e = "any" THEN UserAnswers
    ELSE { a \in UserAnswers : a.kind = "user" /\ ~a.disabled }

SafetyAnswersOf(e) ==
    IF e = "any" THEN SafetyAnswers
    ELSE { a \in SafetyAnswers :
             /\ a.kind = "response"
             /\ a.adult = "VERY_UNLIKELY"
             /\ a.violence = "VERY_UNLIKELY"
             /\ a.racy = "VERY_UNLIKELY" }

TextAnswersOf(e) ==
    IF e = "any" THEN TextAnswers
    ELSE { a \in TextAnswers : a.annotations = <<Rep("x", MIN_TEXT_LENGTH)>> }

\* whether upload_from_string and publish succeed
OutcomesOf(e) == IF e = "sizes" THEN {TRUE} ELSE BOOLEAN

(***************************************************************************)
(* State.                                                                  *)
(*   env               the environment the service runs in                 *)
(*   MAX_FILE_SIZE_MB  the configured limit (line 24), read at startup     *)
(*   pc[w]             where request handler w stands in ingestion_agent   *)
(*   request_json[w]   the body it was called with                         *)
(*   loc[w]            its local variables                                 *)
(*   response[w]       what it returned                                    *)
(*   calls[w]          the calls it made so far, in order (history)        *)
(*   last[w]           its latest collaborator call, with the answer       *)
(*   store             the objects of the processing bucket BUCKET_NAME    *)
(*   queue             the messages published to EXTRACTION_TOPIC          *)
(*   issued            the uuid4 values drawn so far                       *)
(*   landed            the objects in storage that requests can refer to   *)
(*   verified[w]       the user_id auth.get_user found enabled (history)   *)
(***************************************************************************)
VARIABLES env, MAX_FILE_SIZE_MB, pc, request_json, loc, response, calls, last,
          store, queue, issued, landed, verified

vars == <<env, MAX_FILE_SIZE_MB, pc, request_json, loc, response, calls, last,
          store, queue, issued, landed, verified>>

NoLocals ==
    [ bucket_name |-> None, file_name |-> None, blob_metadata |-> None,
      blob_size |-> None, user_id |-> None, image_content |-> None,
      file_data_base64 |-> None, content_type |-> None,
      destination_blob_name |-> None, gcs_uri |-> None ]

NoResponse == [ret |-> FALSE, error |-> "", status |-> 0, message_id |-> None]

NoCall == [op |-> "-", arg |-> None, ans |-> None]

Call(op, arg, ans) == [op |-> op, arg |-> arg, ans |-> ans]

\* values MAX_FILE_SIZE_MB is configured with
ConfiguredLimits == {1, DEFAULT_MAX_FILE_SIZE_MB}

\* the service has started in environment e, with one of the limits
InitOf(e, limits, landings) ==
    /\ env = e
    /\ MAX_FILE_SIZE_MB \in limits
    /\ pc = [w \in Workers |-> "idle"]
    /\ request_json = [w \in Workers |-> None]
    /\ loc = [w \in Workers |-> NoLocals]
    /\ response = [w \in Workers |-> NoResponse]
    /\ calls = [w \in Workers |-> <<>>]
    /\ last = [w \in Workers |-> NoCall]
    /\ store = {}
    /\ queue = <<>>
    /\ issued = {}
    /\ landed \in landings
    /\ verified = [w \in Workers |-> None]

Init == InitOf("any", ConfiguredLimits, LandedChoices)

\* Order with the relocation moved before the image checks
OrderRelocateFirst ==
    << "parse", "resolve", "presize", "download", "verify", "validate",
       "upload", "safety", "quality", "publish" >>

\* the places of ingestion_agent, in the order of its statements
Order ==
    << "parse", "resolve", "presize", "download", "verify", "validate",
       "safety", "quality", "upload", "publish" >>

\* After with the upload attempted again once it returned
AfterWithUploadAgain(place) ==
    IF place = "upload" THEN "upload"
    ELSE Order[(CHOOSE i \in 1..Len(Order) : Order[i] = place) + 1]

\* the place that follows
After(place) == Order[(CHOOSE i \in 1..Len(Order) : Order[i] = place) + 1]

\* the handler returns response r
Finish(w, r) ==
    /\ response' = [response EXCEPT ![w] = r]
    /\ pc' = [pc EXCEPT ![w] = "done"]

\* the handler goes on at the given place
Goto(w, place) ==
    /\ pc' = [pc EXCEPT ![w] = place]
    /\ UNCHANGED response

\* the handler made the calls ops, the last of them a collaborator call c
Made(w, ops, c) ==
    /\ calls' = [calls EXCEPT ![w] = @ \o ops]
    /\ last' = [last EXCEPT ![w] = c]

(***************************************************************************)
(* handle_request (lines 30-32): a POST / arrives with some body.          *)
(***************************************************************************)
Receive(w) ==
    /\ pc[w] = "idle"
    /\ \E r \in RequestsOf(env) : request_json' = [request_json EXCEPT ![w] = r]
    /\ pc' = [pc EXCEPT ![w] = Order[1]]
    /\ UNCHANGED <<env, verified, landed, MAX_FILE_SIZE_MB, loc, response, calls, last, store, queue, issued>>

(***************************************************************************)
(* lines 41-74                                                             *)
(***************************************************************************)
Parse(w) ==
    /\ pc[w] = "parse"
    /\ LET r == ParseRequest(request_json[w]) IN
       IF r.ret
       THEN Finish(w, r) /\ UNCHANGED loc
       ELSE /\ Goto(w, After("parse"))
            /\ loc' = [loc EXCEPT ![w].bucket_name = r.vals.bucket_name,
                                  ![w].file_name = r.vals.file_name]
    /\ UNCHANGED <<env, verified, landed, MAX_FILE_SIZE_MB, request_json, calls, last, store, queue, issued>>

(***************************************************************************)
(* lines 76-102: the blob is looked up in the storage collaborator.        *)
(***************************************************************************)
ResolveBlob(ans) ==
    IF ans.exists = "NotFound" THEN Return("Bucket or file not found", 404)
    ELSE IF ans.exists = "Forbidden" THEN Return("Access forbidden", 403)
    ELSE IF ans.exists = "Exception" THEN Return("Error accessing file", 500)
    ELSE IF ans.exists = "false" THEN Return("File not found", 404)
    ELSE IF ans.reload = "NotFound" THEN Return("Bucket or file not found", 404)
    ELSE IF ans.reload = "Forbidden" THEN Return("Access forbidden", 403)
    ELSE IF ans.reload = "Exception" THEN Return("Error accessing file", 500)
    ELSE Continue([blob_metadata |-> ans.metadata, blob_size |-> ans.size])

Resolve(w) ==
    /\ pc[w] = "resolve"
    /\ \E ans \in BlobAnswersOf(env, MAX_FILE_SIZE_MB,
                               <<loc[w].bucket_name, loc[w].file_name>> \in landed) :
         LET r == ResolveBlob(ans)
             blob == <<loc[w].bucket_name, loc[w].file_name>>
         IN /\ Made(w, IF ans.exists = "true" THEN <<"blob.exists", "blob.reload">>
                                              ELSE <<"blob.exists">>,
                    Call("blob", blob, ans))
            /\ IF r.ret
               THEN Finish(w, r) /\ UNCHANGED loc
               ELSE /\ Goto(w, After("resolve"))
                    /\ loc' = [loc EXCEPT ![w].blob_metadata = r.vals.blob_metadata,
                                          ![w].blob_size = r.vals.blob_size]
    /\ UNCHANGED <<env, verified, landed, MAX_FILE_SIZE_MB, request_json, store, queue, issued>>

(***************************************************************************)
(* lines 104-116: the owner is derived, the reported size is checked.      *)
(***************************************************************************)
PreSize(w) ==
    /\ pc[w] = "presize"
    /\ loc' = [loc EXCEPT ![w].user_id =
                 DeriveUserId(loc[w].blob_metadata, loc[w].file_name)]
    /\ calls' = [calls EXCEPT ![w] = Append(@, "blob.size")]
    /\ IF ReportedTooLarge(loc[w].blob_size, MAX_FILE_SIZE_MB)
       THEN Finish(w, Return("File exceeds size limit", 413))
       ELSE Goto(w, After("presize"))
    /\ UNCHANGED <<env, verified, landed, MAX_FILE_SIZE_MB, request_json, last, store, queue, issued>>

(***************************************************************************)
(* lines 118-140: the content is downloaded; the required fields.          *)
(***************************************************************************)
Downloaded(ans, user_id) ==
    IF ans.kind = "raise" THEN Return("Failed to download file content", 500)
    ELSE IF ~Truthy(ans.content) THEN Return("Downloaded file is empty", 422)
    ELSE LET file_data_base64 == [t |-> "text", len |-> B64EncodeLen(ans.content.len)] IN
         IF ~Truthy(file_data_base64) \/ ~Truthy(user_id)
         THEN Return("Missing user_id or file_data_base64", 400)
         ELSE Continue([image_content |-> ans.content,
                        file_data_base64 |-> file_data_base64])

Download(w) ==
    /\ pc[w] = "download"
    /\ \E ans \in DownloadAnswersOf(env, MAX_FILE_SIZE_MB) :
         LET r == Downloaded(ans, loc[w].user_id) IN
         /\ Made(w, <<"blob.download_as_bytes">>,
                 Call("blob.download_as_bytes",
                      <<loc[w].bucket_name, loc[w].file_name>>, ans))
         /\ loc' = [loc EXCEPT
                      ![w].image_content = IF ans.kind = "raise" THEN @ ELSE ans.content,
                      ![w].file_data_base64 = IF r.ret THEN @ ELSE r.vals.file_data_base64]
         /\ IF r.ret THEN Finish(w, r) ELSE Goto(w, After("download"))
    /\ UNCHANGED <<env, verified, landed, MAX_FILE_SIZE_MB, request_json, store, queue, issued>>

(***************************************************************************)
(* lines 142-145: IdentityGate.                                            *)
(***************************************************************************)
Verify(w) ==
    /\ pc[w] = "verify"
    /\ \E ans \in UserAnswersOf(env) :
         /\ Made(w, <<"auth.get_user">>, Call("auth.get_user", loc[w].user_id, ans))
         /\ verified' = [verified EXCEPT ![w] =
                           IF ans.kind = "user" /\ ~ans.disabled
                           THEN loc[w].user_id ELSE @]
         /\ IF ~VerifyUserExists(ans)
            THEN Finish(w, Return("Invalid or disabled user ID", 403))
            ELSE Goto(w, After("verify"))
    /\ UNCHANGED <<env, landed, MAX_FILE_SIZE_MB, request_json, loc, store, queue, issued>>

(***************************************************************************)
(* lines 147-158: size of the content, type detection, allow-list.         *)
(***************************************************************************)
Validate(w) ==
    /\ pc[w] = "validate"
    /\ IF ~ValidateFileSize(loc[w].image_content, MAX_FILE_SIZE_MB)
       THEN /\ Finish(w, Return("File exceeds size limit", 413))
            /\ calls' = [calls EXCEPT ![w] = Append(@, "_validate_file_size")]
            /\ UNCHANGED loc
       ELSE LET content_type == DetectContentType(loc[w].image_content) IN
            /\ calls' = [calls EXCEPT ![w] =
                           @ \o <<"_validate_file_size", "_detect_content_type">>]
            /\ loc' = [loc EXCEPT ![w].content_type = content_type]
            /\ IF content_type \notin ALLOWED_CONTENT_TYPES
               THEN Finish(w, Return("Content type not allowed", 415))
               ELSE Goto(w, IF IsImage(content_type) THEN After("validate") ELSE "upload")
    /\ UNCHANGED <<env, verified, landed, MAX_FILE_SIZE_MB, request_json, last, store, queue, issued>>

(***************************************************************************)
(* lines 160-165: SafetyGate, for images.                                  *)
(***************************************************************************)
Safety(w) ==
    /\ pc[w] = "safety"
    /\ \E ans \in SafetyAnswersOf(env) :
         /\ Made(w, <<"safe_search_detection">>,
                 Call("safe_search_detection", loc[w].image_content, ans))
         /\ IF ~PerformSafetyCheck(ans)
            THEN Finish(w, Return("Unsafe content detected in image", 422))
            ELSE Goto(w, After("safety"))
    /\ UNCHANGED <<env, verified, landed, MAX_FILE_SIZE_MB, request_json, loc, store, queue, issued>>

(***************************************************************************)
(* lines 167-170: QualityGate, for images.                                 *)
(***************************************************************************)
Quality(w) ==
    /\ pc[w] = "quality"
    /\ \E ans \in TextAnswersOf(env) :
         /\ Made(w, <<"text_detection">>,
                 Call("text_detection", loc[w].image_content, ans))
         /\ IF ~ValidateContentStructure(ans)
            THEN Finish(w, Return("Insufficient textual content detected", 422))
            ELSE Goto(w, After("quality"))
    /\ UNCHANGED <<env, verified, landed, MAX_FILE_SIZE_MB, request_json, loc, store, queue, issued>>

(***************************************************************************)
(* lines 172-187: relocation into the processing bucket.                   *)
(***************************************************************************)
\* line 22
BUCKET_NAME == "PROJECT_ID.appspot.com"

\* the destination name without the uuid4 value
DestinationBlobNameOfOwner(user_id, token, ext) ==
    [prefix |-> "processing-receipts", user_id |-> user_id.s, token |-> 0, ext |-> ext]

\* line 175: f"processing-receipts/{user_id}-{uuid.uuid4()}.{ext}", kept as its parts
DestinationBlobName(user_id, token, ext) ==
    [prefix |-> "processing-receipts", user_id |-> user_id.s, token |-> token, ext |-> ext]

\* line 182: f"gs://{BUCKET_NAME}/{destination_blob_name}"
GcsUri(destination_blob_name) ==
    [scheme |-> "gs", bucket |-> BUCKET_NAME, name |-> destination_blob_name]

\* upload_from_string: the object of that name is created or replaced
Put(objects, name, content, content_type) ==
    { o \in objects : o.name # name }
    \cup { [name |-> name, content |-> content, content_type |-> content_type] }

\* Uploaded with the exception of the upload logged and not returned
UploadedIgnoringFailure(ok, destination_blob_name) ==
    Continue([gcs_uri |-> GcsUri(destination_blob_name)])

\* lines 173-187: the upload raised, or gcs_uri names the object written
Uploaded(ok, destination_blob_name) ==
    IF ok THEN Continue([gcs_uri |-> GcsUri(destination_blob_name)])
    ELSE Return("Failed to upload file for processing", 500)

Upload(w) ==
    /\ pc[w] = "upload"
    /\ \E token \in Tokens \ issued, ok \in OutcomesOf(env) :
         LET ext == Ext(loc[w].content_type)
             destination_blob_name == DestinationBlobName(loc[w].user_id, token, ext)
         IN /\ issued' = issued \cup {token}
            /\ Made(w, <<"upload_from_string">>,
                    Call("upload_from_string", destination_blob_name,
                         [kind |-> IF ok THEN "ok" ELSE "raise"]))
            /\ store' = IF ok THEN Put(store, destination_blob_name,
                                       loc[w].image_content, loc[w].content_type)
                              ELSE store
            /\ LET r == Uploaded(ok, destination_blob_name) IN
               /\ loc' = [loc EXCEPT
                            ![w].destination_blob_name = destination_blob_name,
                            ![w].gcs_uri = IF r.ret THEN @ ELSE r.vals.gcs_uri]
               /\ IF r.ret THEN Finish(w, r) ELSE Goto(w, After("upload"))
    /\ UNCHANGED <<env, verified, landed, MAX_FILE_SIZE_MB, request_json, queue>>

(***************************************************************************)
(* lines 189-206: announcement on the extraction topic, and the answer.    *)
(***************************************************************************)
\* lines 191-194
MessagePayload(gcs_uri, user_id) == [file_path |-> gcs_uri, user_id |-> user_id.s]

\* Published without waiting for the acknowledgement
PublishedFireAndForget(ok, message_id) ==
    Accepted(IF ok THEN message_id ELSE None)

\* lines 197-206: future.result() raised, or gave the message id
Published(ok, message_id) ==
    IF ok THEN Accepted(message_id)
    ELSE Return("Failed to queue file for processing", 500)

\* the bucket after the publish, with the object deleted when it failed
AfterPublishWithCleanup(objects, ok, destination_blob_name) ==
    IF ok THEN objects ELSE { o \in objects : o.name # destination_blob_name }

\* lines 196-204: whether future.result() returned or raised, the handler
\* makes no further call on the bucket
AfterPublish(objects, ok, destination_blob_name) == objects

Publish(w) ==
    /\ pc[w] = "publish"
    /\ \E ok \in OutcomesOf(env) :
         LET message_payload == MessagePayload(loc[w].gcs_uri, loc[w].user_id)
             message_id == Num(Len(queue) + 1)
         IN /\ Made(w, <<"publish">>,
                    Call("publish", message_payload,
                         [kind |-> IF ok THEN "ok" ELSE "raise"]))
            /\ queue' = IF ok THEN Append(queue, message_payload) ELSE queue
            /\ store' = AfterPublish(store, ok, loc[w].destination_blob_name)
            /\ Finish(w, Published(ok, message_id))
    /\ UNCHANGED <<env, verified, landed, MAX_FILE_SIZE_MB, request_json, loc, issued>>

(***************************************************************************)
(* One request at a time: handler 1 serves a single request.               *)
(***************************************************************************)
Handler(w) ==
    \/ Receive(w)
    \/ Parse(w)
    \/ Resolve(w)
    \/ PreSize(w)
    \/ Download(w)
    \/ Verify(w)
    \/ Validate(w)
    \/ Safety(w)
    \/ Quality(w)
    \/ Upload(w)
    \/ Publish(w)

Next == Handler(1)

Spec == Init /\ [][Next]_vars

(***************************************************************************)
(* The size checks: one request for an object that is there, under every   *)
(* limit from -1 to MaxLimitMB, with every reported size and every length. *)
(***************************************************************************)
SizeLimits == (0 - 1)..MaxLimitMB

InitSizes == InitOf("sizes", SizeLimits, {AllBlobs})

SpecSizes == InitSizes /\ [][Next]_vars

(***************************************************************************)
(* Concurrent requests: every handler serves a request for the same        *)
(* object, and their steps interleave in any order.                        *)
(***************************************************************************)
InitSame == InitOf("same", {DEFAULT_MAX_FILE_SIZE_MB}, {AllBlobs})

NextSame == \E w \in Workers : Handler(w)

SpecSame == InitSame /\ [][NextSame]_vars

(***************************************************************************)
(* Properties.                                                             *)
(***************************************************************************)
Done(w) == pc[w] = "done"

Status(w) == response[w].status

\* handler w made the call op
Called(w, op) == \E i \in 1..Len(calls[w]) : calls[w][i] = op

\* the position of the first call op of handler w
CallIndex(w, op) == CHOOSE i \in 1..Len(calls[w]) : calls[w][i] = op

\* the processing bucket holds the object handler w named
Written(w) == \E o \in store : o.name = loc[w].destination_blob_name

\* the queue holds a message for the object handler w wrote
Announced(w) == \E i \in 1..Len(queue) : queue[i].file_path = loc[w].gcs_uri

LastIs(w, op) == last[w].op = op

RejectionStatuses == {400, 403, 404, 413, 415, 422}

\* C1: a submission answered with a rejection (400, 403, 404, 413, 415, 422)
\* has written no object to the processing bucket and published no message.
C1_NoPartialWork ==
    \A w \in Workers :
        Status(w) \in RejectionStatuses =>
            /\ ~Called(w, "upload_from_string")
            /\ ~Called(w, "publish")
            /\ ~Written(w)
            /\ ~Announced(w)

\* C1 witness: the last gate (quality) rejected a submission, nothing written.
C1_Witness ==
    \E w \in Workers :
        /\ Status(w) = 422
        /\ LastIs(w, "text_detection")
        /\ store = {} /\ queue = <<>>

\* C2: a payload whose actual byte count exceeds the limit is rejected with
\* 413 whatever its owner, its content and the size the storage reported
\* (the size gate precedes the identity gate).
C2_SizeGateFirst ==
    \A w \in Workers :
        ( /\ Done(w)
          /\ loc[w].image_content.t = "bytes"
          /\ loc[w].image_content.len > MAX_FILE_SIZE_MB * BytesPerMB
          /\ Truthy(loc[w].user_id) )
        => Status(w) = 413

\* C3: a publish is made only after the object was written to the processing
\* bucket, and a failed write ends the submission with 500, nothing published.
C3_PublishAfterWrite ==
    \A w \in Workers :
        /\ Called(w, "publish") =>
              /\ Called(w, "upload_from_string")
              /\ CallIndex(w, "upload_from_string") < CallIndex(w, "publish")
              /\ Written(w)
        /\ (LastIs(w, "upload_from_string") /\ last[w].ans.kind = "raise") =>
              /\ Done(w)
              /\ Status(w) = 500
              /\ ~Called(w, "publish")
              /\ ~Announced(w)

\* C3 witness: a publish was made, after the write of the object it names.
C3_Witness ==
    \E w \in Workers :
        /\ Called(w, "publish")
        /\ Written(w)
        /\ \E i \in 1..Len(queue) : queue[i].file_path.name = loc[w].destination_blob_name

\* C4: 200 is answered only when the object was written and the publish was
\* acknowledged with a message id; an unacknowledged publish never answers 200;
\* every submission ends with exactly one of success or an error.
C4_NoPartialSuccess ==
    \A w \in Workers :
        /\ Status(w) = 200 =>
              /\ Written(w)
              /\ Announced(w)
              /\ LastIs(w, "publish") /\ last[w].ans.kind = "ok"
              /\ Truthy(response[w].message_id)
        /\ (LastIs(w, "publish") /\ last[w].ans.kind = "raise") =>
              Done(w) /\ Status(w) # 200
        /\ Done(w) =>
              /\ response[w].ret
              /\ \/ Status(w) = 200 /\ response[w].error = ""
                 \/ /\ Status(w) \in RejectionStatuses \cup {500}
                    /\ response[w].error # ""
                    /\ response[w].message_id = None

\* C4 witness: a submission answered 200, its object written and announced.
C4_Witness ==
    \E w \in Workers : Status(w) = 200 /\ Written(w) /\ Announced(w)

\* C5: an owner whose lookup reports not-found or disabled, or raises, is
\* rejected with 403, and nothing runs after the lookup.
C5_IdentityFailsClosed ==
    \A w \in Workers :
        ( /\ LastIs(w, "auth.get_user")
          /\ ~(last[w].ans.kind = "user" /\ ~last[w].ans.disabled) )
        => /\ Done(w)
           /\ Status(w) = 403
           /\ calls[w][Len(calls[w])] = "auth.get_user"
           /\ ~Called(w, "_detect_content_type")
           /\ ~Called(w, "safe_search_detection")
           /\ ~Called(w, "text_detection")
           /\ ~Called(w, "upload_from_string")
           /\ ~Called(w, "publish")
           /\ ~Written(w) /\ ~Announced(w)

\* C5 witness: the identity lookup raised and the submission was answered 403.
C5_Witness ==
    \E w \in Workers :
        LastIs(w, "auth.get_user") /\ last[w].ans.kind = "error" /\ Status(w) = 403

\* C6: the safety gate passes when the moderation call raises or answers with
\* an internal error, and rejects (422) only on a successful answer rating
\* adult, violence or racy LIKELY or VERY_LIKELY.
C6_SafetyFailsOpen ==
    \A w \in Workers :
        LastIs(w, "safe_search_detection") =>
            LET a == last[w].ans IN
            /\ a.kind \in {"raise", "error"} => ~Done(w)
            /\ (Done(w) /\ Status(w) = 422) =>
                  /\ a.kind = "response"
                  /\ \E l \in {a.adult, a.violence, a.racy} : l \in {"LIKELY", "VERY_LIKELY"}

\* the length of s without its leading and trailing whitespace
TrimmedLen(s) ==
    LET inked == { i \in 1..Len(s) : s[i] \notin Whitespace } IN
    IF inked = {} THEN 0
    ELSE (CHOOSE i \in inked : \A j \in inked : j <= i)
         - (CHOOSE i \in inked : \A j \in inked : i <= j) + 1

\* C7: the quality gate passes when the OCR call raises or answers with an
\* error; otherwise it rejects (422) iff there is no annotation or the first
\* annotation, trimmed, has fewer than 10 characters.
C7_QualityDecision ==
    \A w \in Workers :
        LastIs(w, "text_detection") =>
            LET a == last[w].ans
                rejected == Done(w) /\ Status(w) = 422
                passed == pc[w] = "upload"
            IN /\ rejected \/ passed
               /\ a.kind \in {"raise", "error"} => passed
               /\ a.kind = "response" =>
                     (rejected <=> \/ a.annotations = <<>>
                                   \/ TrimmedLen(a.annotations[1]) < 10)

\* C7 witness: a padded text of exactly 10 characters once trimmed passed.
C7_Witness ==
    \E w \in Workers :
        /\ LastIs(w, "text_detection")
        /\ last[w].ans.kind = "response"
        /\ last[w].ans.annotations # <<>>
        /\ Len(last[w].ans.annotations[1]) > 10
        /\ TrimmedLen(last[w].ans.annotations[1]) = 10
        /\ pc[w] = "upload"

\* the body is a relay envelope (it has a message object) that is malformed:
\* no message.data, data that is not base64, an inner text that is not JSON,
\* or an inner JSON object without bucket or name
MalformedEnvelope(r) ==
    /\ r.t = "dict" /\ "message" \in DOMAIN r.d /\ r.d.message.t = "dict"
    /\ LET data == Get(r.d.message, "data") IN
       \/ data.t = "none"
       \/ data.t = "str" /\ data.s = <<>>
       \/ data.t = "b64" /\ ~data.pad
       \/ data.t = "b64" /\ data.pad /\ (~data.utf8 \/ ~data.json)
       \/ /\ data.t = "b64" /\ data.pad /\ data.utf8 /\ data.json
          /\ data.value.t = "dict"
          /\ {"bucket", "name"} \ DOMAIN data.value.d # {}

\* C8: a malformed relay envelope is answered 400, never 500, and no
\* collaborator is called for it.
C8_MalformedEnvelopeIs400 ==
    \A w \in Workers :
        (Done(w) /\ MalformedEnvelope(request_json[w])) =>
            Status(w) = 400 /\ calls[w] = <<>>

\* the body has the Direct shape: user_id and file_data_base64, no message
DirectShape(r) ==
    /\ r.t = "dict"
    /\ {"user_id", "file_data_base64"} \subseteq DOMAIN r.d
    /\ "message" \notin DOMAIN r.d

\* C9: a Direct request whose file_data_base64 decodes is not answered 400:
\* it is run through the pipeline, starting with the lookup of its owner.
C9_DirectShapeAccepted ==
    \A w \in Workers :
        ( /\ Done(w)
          /\ DirectShape(request_json[w])
          /\ request_json[w].d.file_data_base64.pad )
        => Status(w) # 400 /\ Called(w, "auth.get_user")

\* the body is a relay envelope with a well-formed inner JSON and nothing else
RelayShape(r) ==
    /\ r.t = "dict" /\ DOMAIN r.d = {"message"}
    /\ r.d.message.t = "dict" /\ DOMAIN r.d.message.d = {"data"}
    /\ LET data == r.d.message.d.data IN
       /\ data.t = "b64" /\ data.pad /\ data.utf8 /\ data.json
       /\ data.value.t = "dict"
       /\ DOMAIN data.value.d = {"bucket", "name"}
       /\ Truthy(data.value.d.bucket) /\ Truthy(data.value.d.name)

\* the object the inner JSON of a relay envelope names
RelayBlob(r) ==
    <<r.d.message.d.data.value.d.bucket, r.d.message.d.data.value.d.name>>

\* C10: a relay request naming an object that is not in storage is answered
\* 404 after the lookup of that object, and nothing else is called.
C10_RelayNotFound ==
    \A w \in Workers :
        ( /\ Done(w)
          /\ RelayShape(request_json[w])
          /\ RelayBlob(request_json[w]) \notin landed )
        => /\ Status(w) = 404
           /\ LastIs(w, "blob") /\ last[w].arg = RelayBlob(request_json[w])
           /\ calls[w] = <<"blob.exists">>

\* the limit in bytes
LimitBytes == MAX_FILE_SIZE_MB * BytesPerMB

\* handler w downloaded a content of more bytes than the limit
Oversize(w) ==
    loc[w].image_content.t = "bytes" /\ loc[w].image_content.len > LimitBytes

\* C11: the size limit is enforced on the byte count of the downloaded
\* content: whatever size the storage reported (none, zero, or less than the
\* content has), a content of more than MAX_FILE_SIZE_MB * 1024 * 1024 bytes
\* is never written to the processing bucket and never announced.
C11_ActualSizeEnforced ==
    /\ \A o \in store : o.content.len <= LimitBytes
    /\ \A w \in Workers :
          Oversize(w) =>
              /\ pc[w] \notin {"safety", "quality", "upload", "publish"}
              /\ ~Called(w, "upload_from_string")
              /\ ~Called(w, "publish")
              /\ ~Written(w)
              /\ ~Announced(w)
              /\ Status(w) # 200

\* C11 witness: the storage reported no size or a size within the limit, the
\* content downloaded is over the limit, and the check of its length
\* answered 413 with nothing written.
C11_Witness ==
    \E w \in Workers :
        /\ Oversize(w)
        /\ ~ReportedTooLarge(loc[w].blob_size, MAX_FILE_SIZE_MB)
        /\ loc[w].blob_size = Num(0)
        /\ Called(w, "_validate_file_size")
        /\ Status(w) = 413
        /\ store = {}

\* the last call handler w made
LastCall(w) == calls[w][Len(calls[w])]

\* C12: the check of the content passes exactly when its length is at most
\* limitMB * 1024 * 1024 bytes, for every length and every configured limit
\* (a content of exactly the limit passes, one byte more is answered 413),
\* and the check of a reported size rejects, with 413, exactly the sizes
\* above the same bound.
C12_SizeGuardBound ==
    \A w \in Workers :
        /\ Called(w, "_validate_file_size") =>
              IF loc[w].image_content.len <= MAX_FILE_SIZE_MB * 1024 * 1024
              THEN Called(w, "_detect_content_type")
              ELSE /\ Done(w) /\ Status(w) = 413
                   /\ LastCall(w) = "_validate_file_size"
        /\ (Called(w, "blob.size") /\ Truthy(loc[w].blob_size)) =>
              IF loc[w].blob_size.n <= MAX_FILE_SIZE_MB * 1024 * 1024
              THEN ~(Done(w) /\ LastCall(w) = "blob.size")
              ELSE /\ Done(w) /\ Status(w) = 413
                   /\ LastCall(w) = "blob.size"

\* C12 witness: under the default limit a content of exactly 5 * 1024 * 1024
\* bytes, reported with that size, passed both checks.
C12_Witness ==
    \E w \in Workers :
        /\ MAX_FILE_SIZE_MB = DEFAULT_MAX_FILE_SIZE_MB
        /\ loc[w].blob_size = Num(MAX_FILE_SIZE_MB * 1024 * 1024)
        /\ loc[w].image_content.t = "bytes"
        /\ loc[w].image_content.len = MAX_FILE_SIZE_MB * 1024 * 1024
        /\ Called(w, "_detect_content_type")

PDF == Mime("application", "pdf")

\* C13: a content detected as a PDF, of an enabled owner and within the size
\* limit, goes from the allow-list straight to the relocation: neither
\* safe_search_detection nor text_detection is called for it, and its answer
\* is 200 exactly when the write and the publish succeeded (500 otherwise).
C13_PdfBypassesImageChecks ==
    \A w \in Workers :
        loc[w].content_type = PDF =>
            /\ verified[w] = loc[w].user_id
            /\ loc[w].image_content.len <= LimitBytes
            /\ pc[w] \in {"upload", "publish", "done"}
            /\ ~Called(w, "safe_search_detection")
            /\ ~Called(w, "text_detection")
            /\ Done(w) =>
                  /\ Status(w) \in {200, 500}
                  /\ Status(w) = 200 <=> (Written(w) /\ Announced(w))

\* C13 witness: a PDF was accepted with 200, written and announced, and the
\* vision collaborator was never called.
C13_Witness ==
    \E w \in Workers :
        /\ loc[w].content_type = PDF
        /\ Status(w) = 200
        /\ Written(w) /\ Announced(w)
        /\ calls[w][Len(calls[w]) - 2] = "_detect_content_type"

\* the media type of the four signatures the service knows
KnownType(sig) ==
    CASE sig = "jpeg" -> Mime("image", "jpeg")
      [] sig = "png" -> Mime("image", "png")
      [] sig = "webp" -> Mime("image", "webp")
      [] sig = "pdf" -> PDF

\* C14: a content with none of the JPEG, PNG, WEBP and PDF signatures is
\* detected as application/octet-stream and the submission is answered 415
\* at the allow-list, with no safety check, quality check, write or publish
\* after it; only JPEG, PNG, WEBP and PDF contents go past the allow-list.
C14_UnknownTypeRejected ==
    \A w \in Workers :
        /\ Called(w, "_detect_content_type") =>
              IF loc[w].image_content.sig \in {"jpeg", "png", "webp", "pdf"}
              THEN /\ loc[w].content_type = KnownType(loc[w].image_content.sig)
                   /\ ~(Done(w) /\ LastCall(w) = "_detect_content_type")
              ELSE /\ loc[w].content_type = Mime("application", "octet-stream")
                   /\ Done(w) /\ Status(w) = 415
                   /\ LastCall(w) = "_detect_content_type"
                   /\ ~Written(w) /\ ~Announced(w)
        /\ ( \/ pc[w] \in {"safety", "quality", "upload", "publish"}
             \/ Called(w, "safe_search_detection")
             \/ Called(w, "text_detection")
             \/ Called(w, "upload_from_string")
             \/ Called(w, "publish") ) =>
              loc[w].image_content.sig \in {"jpeg", "png", "webp", "pdf"}

\* C14 witness: a content that imghdr knows as another image format (not
\* JPEG, PNG or WEBP) was answered 415 with nothing written.
C14_Witness ==
    \E w \in Workers :
        /\ loc[w].image_content.t = "bytes"
        /\ loc[w].image_content.sig = "gif"
        /\ Status(w) = 415
        /\ LastCall(w) = "_detect_content_type"
        /\ store = {} /\ queue = <<>>

Succeeded(w) == Done(w) /\ Status(w) = 200

\* the handlers whose upload_from_string returned
Uploaders == { w \in Workers : loc[w].gcs_uri # None }

\* C15: submissions are not deduplicated and their keys do not collide: two
\* accepted submissions of the same owner with the same bytes, served one
\* after the other or at the same time, leave two objects under two
\* different names and two messages, each naming its own object; every
\* upload that returned created one object, which no other submission
\* replaced.
C15_NoDedupNoCollision ==
    /\ \A w1, w2 \in Workers :
          (w1 # w2 /\ Succeeded(w1) /\ Succeeded(w2)) =>
              /\ loc[w1].destination_blob_name # loc[w2].destination_blob_name
              /\ \E i, j \in 1..Len(queue) :
                    /\ i # j
                    /\ queue[i].file_path = loc[w1].gcs_uri
                    /\ queue[j].file_path = loc[w2].gcs_uri
                    /\ queue[i].file_path.name = loc[w1].destination_blob_name
                    /\ queue[j].file_path.name = loc[w2].destination_blob_name
    /\ Cardinality(store) = Cardinality(Uploaders)
    /\ \A w \in Uploaders :
          [ name |-> loc[w].destination_blob_name,
            content |-> loc[w].image_content,
            content_type |-> loc[w].content_type ] \in store
    /\ Len(queue) = Cardinality({ w \in Workers : Succeeded(w) })
    /\ \A i, j \in 1..Len(queue) : i # j => queue[i].file_path # queue[j].file_path

\* C15 witness: two handlers accepted the same bytes of the same owner, and
\* the bucket holds two objects and the queue two messages.
C15_Witness ==
    \E w1, w2 \in Workers :
        /\ w1 # w2
        /\ Succeeded(w1) /\ Succeeded(w2)
        /\ loc[w1].user_id = loc[w2].user_id
        /\ loc[w1].image_content = loc[w2].image_content
        /\ Cardinality(store) >= 2
        /\ Len(queue) >= 2

\* the object handler w wrote has the name processing-receipts/{user_id}-
\* {uuid4}.{ext}, with the extension jpeg_ext for a JPEG, and the detected
\* media type as its content type; the one message of an accepted submission
\* carries the gs:// path of that object and the same user_id.
KeyForm(w, jpeg_ext) ==
    LET name == loc[w].destination_blob_name
        detected == KnownType(loc[w].image_content.sig)
    IN /\ name.prefix = "processing-receipts"
       /\ name.user_id = loc[w].user_id.s
       /\ name.token \in Tokens
       /\ name.ext = CASE detected = Mime("image", "jpeg") -> jpeg_ext
                        [] detected = Mime("image", "png") -> "png"
                        [] detected = Mime("image", "webp") -> "webp"
                        [] detected = PDF -> "pdf"
       /\ \E o \in store : o.name = name /\ o.content_type = detected
       /\ Succeeded(w) =>
             /\ Cardinality({ i \in 1..Len(queue) : queue[i].file_path.name = name }) = 1
             /\ \A i \in 1..Len(queue) :
                   queue[i].file_path.name = name =>
                       queue[i] = [ file_path |-> [ scheme |-> "gs",
                                                    bucket |-> BUCKET_NAME,
                                                    name |-> name ],
                                    user_id |-> loc[w].user_id.s ]

\* C16 as claimed: the object of an accepted JPEG is written under
\* processing-receipts/{ownerID}-{uniqueToken}.jpg, with the detected media
\* type as content type, and the one message carries that object's location
\* and the same ownerID.
C16_JpegKeyEndsJpg == \A w \in Uploaders : KeyForm(w, "jpg")

\* C16: the object is written under processing-receipts/{ownerID}-
\* {uniqueToken}.{ext} where ext is the subtype of the detected media type
\* (jpeg for a JPEG, png, webp, pdf), with that media type as content type,
\* and the one message of the accepted submission carries that object's
\* location and the same ownerID.
C16_KeyEndsMimeSubtype == \A w \in Uploaders : KeyForm(w, "jpeg")

\* C16 witness: a JPEG was accepted and its object's name ends in .jpeg.
C16_Witness ==
    \E w \in Uploaders :
        /\ Succeeded(w)
        /\ loc[w].content_type = Mime("image", "jpeg")
        /\ loc[w].destination_blob_name.ext = "jpeg"
        /\ Written(w) /\ Announced(w)

\* C17: when the publish fails after the object was written, the answer is
\* 500, the object stays in the processing bucket as it was written (no
\* delete, no overwrite, no other call after the publish), and the queue
\* holds no message for it.
C17_PublishFailureLeavesObject ==
    \A w \in Workers :
        (LastIs(w, "publish") /\ last[w].ans.kind = "raise") =>
            /\ Done(w) /\ Status(w) = 500
            /\ response[w].error = "Failed to queue file for processing"
            /\ [ name |-> loc[w].destination_blob_name,
                 content |-> loc[w].image_content,
                 content_type |-> loc[w].content_type ] \in store
            /\ LastCall(w) = "publish"
            /\ \A i \in 1..Len(queue) :
                  queue[i].file_path.name # loc[w].destination_blob_name

\* C17 witness: the publish raised, the answer is 500, the bucket holds the
\* object and the queue is empty.
C17_Witness ==
    \E w \in Workers :
        /\ LastIs(w, "publish") /\ last[w].ans.kind = "raise"
        /\ Status(w) = 500
        /\ Written(w)
        /\ queue = <<>>

\* how many times handler w made the call op
Count(w, op) == Cardinality({ i \in 1..Len(calls[w]) : calls[w][i] = op })

\* C18: nothing is retried: a submission calls auth.get_user,
\* upload_from_string and publish at most once each, and when one of them
\* fails the submission ends with that call, in a failure answer (403 for the
\* identity lookup, 500 for the write and the publish).
C18_NoRetries ==
    \A w \in Workers :
        /\ \A op \in {"auth.get_user", "upload_from_string", "publish"} :
              Count(w, op) <= 1
        /\ (LastIs(w, "auth.get_user") /\ last[w].ans.kind # "user") =>
              Done(w) /\ Status(w) = 403 /\ LastCall(w) = "auth.get_user"
        /\ (LastIs(w, "upload_from_string") /\ last[w].ans.kind = "raise") =>
              Done(w) /\ Status(w) = 500 /\ LastCall(w) = "upload_from_string"
        /\ (LastIs(w, "publish") /\ last[w].ans.kind = "raise") =>
              Done(w) /\ Status(w) = 500 /\ LastCall(w) = "publish"

\* C18 witness: the upload raised; it was called once and the submission
\* ended there with 500, the publish never called.
C18_Witness ==
    \E w \in Workers :
        /\ LastIs(w, "upload_from_string") /\ last[w].ans.kind = "raise"
        /\ Count(w, "upload_from_string") = 1
        /\ Count(w, "auth.get_user") = 1
        /\ Count(w, "publish") = 0
        /\ Status(w) = 500

\* p is the part of s up to, not including, its first "-" (all of s if none)
IsPrefixBeforeDash(p, s) ==
    /\ \A i \in 1..Len(p) : p[i] # "-"
    /\ \/ p = s
       \/ /\ Len(s) > Len(p)
          /\ SubSeq(s, 1, Len(p)) = p
          /\ s[Len(p) + 1] = "-"

\* the metadata of the object has a non-empty user_id
HasOwnerMetadata(w) ==
    /\ loc[w].blob_metadata.t = "dict"
    /\ "user_id" \in DOMAIN loc[w].blob_metadata.d
    /\ loc[w].blob_metadata.d["user_id"].t = "str"
    /\ loc[w].blob_metadata.d["user_id"].s # <<>>

\* C19: for a relayed object the owner is the user_id of the object's
\* metadata when there is one and it is not empty, whatever the name says;
\* otherwise it is the part of the object's name before its first "-"; and
\* this owner is the identifier auth.get_user is called with.
C19_OwnerDerivation ==
    \A w \in Workers :
        /\ Called(w, "blob.size") =>
              IF HasOwnerMetadata(w)
              THEN loc[w].user_id = loc[w].blob_metadata.d["user_id"]
              ELSE /\ loc[w].user_id.t = "str"
                   /\ IsPrefixBeforeDash(loc[w].user_id.s, loc[w].file_name.s)
        /\ LastIs(w, "auth.get_user") => last[w].arg = loc[w].user_id
        /\ verified[w] # None => verified[w] = loc[w].user_id
        /\ Called(w, "auth.get_user") => Truthy(loc[w].user_id)

\* C19 witness: the object a-b-x has no owner metadata, and auth.get_user
\* was called with "a".
C19_Witness ==
    \E w \in Workers :
        /\ loc[w].file_name = Str(<<"a", "-", "b", "-", "x">>)
        /\ ~HasOwnerMetadata(w)
        /\ LastIs(w, "auth.get_user")
        /\ last[w].arg = Str(<<"a">>)

\* C20: the owner in the name of a written object and the user_id of a
\* published message are the identifier auth.get_user found enabled earlier
\* in the same submission, so nothing is written or published for an
\* identifier that was not looked up and found enabled; and the content
\* written is the content downloaded, the one the size, type, safety and
\* quality checks were applied to.
C20_VerifiedOwnerSamePayload ==
    /\ \A w \in Workers :
          /\ (Called(w, "upload_from_string") \/ Called(w, "publish")) =>
                /\ verified[w] # None
                /\ CallIndex(w, "auth.get_user") < CallIndex(w, "upload_from_string")
                /\ loc[w].destination_blob_name.user_id = verified[w].s
          /\ (LastIs(w, "safe_search_detection") \/ LastIs(w, "text_detection")) =>
                last[w].arg = loc[w].image_content
          /\ LastIs(w, "publish") => last[w].arg.user_id = verified[w].s
    /\ \A o \in store :
          \E w \in Workers :
              /\ o.name = loc[w].destination_blob_name
              /\ o.name.user_id = verified[w].s
              /\ o.content = loc[w].image_content
              /\ o.content.len <= LimitBytes
              /\ o.content_type = KnownType(o.content.sig)
              /\ o.content_type.type = "image" =>
                    /\ Called(w, "safe_search_detection")
                    /\ Called(w, "text_detection")
    /\ \A i \in 1..Len(queue) :
          \E w \in Workers :
              /\ queue[i].file_path = loc[w].gcs_uri
              /\ queue[i].user_id = verified[w].s

\* C20 witness: a submission was accepted; the owner "b" of the object's
\* metadata was found enabled and is the owner in the name of the object
\* and in the message.
C20_Witness ==
    \E w \in Workers :
        /\ Succeeded(w)
        /\ verified[w] = Str(<<"b">>)
        /\ \E o \in store : o.name.user_id = <<"b">> /\ o.content = loc[w].image_content
        /\ queue # <<>> /\ queue[1].user_id = <<"b">>

====
